---- MODULE Spec2Model ----
(***************************************************************************)
(* The quiz pipeline of main.py: quiz_endpoint renders a page              *)
(* (fetch_quiz_page_and_extract), derives an answer (parse_and_solve),     *)
(* resolves the submission URL, posts the merged body and answers.         *)
(*                                                                         *)
(* Text is a sequence of code points (a Python str), bytes a sequence of   *)
(* 0..255.  A JSON / Python value is a pair <<type, value>>:                *)
(*   "null" (value <<>>), "bool" (a BOOLEAN), "num" (an integer),          *)
(*   "str" (a text), "arr" (a sequence of values),                         *)
(*   "obj" (a function from key texts to values: a dict).                  *)
(* A page global that is not defined has the type "undefined".             *)
(***************************************************************************)
EXTENDS Integers, Sequences, FiniteSets, TLC

\* ------------------------------------------------------------------ text

\* The printable ASCII characters a literal can spell: code points 32..95,
\* then 97..126 (the grave accent, 96, has no literal).
AsciiLow ==
  << " ", "!", "\"", "#", "$", "%", "&", "'", "(", ")", "*", "+", ",", "-", ".", "/",
     "0", "1", "2", "3", "4", "5", "6", "7", "8", "9", ":", ";", "<", "=", ">", "?",
     "@", "A", "B", "C", "D", "E", "F", "G", "H", "I", "J", "K", "L", "M", "N", "O",
     "P", "Q", "R", "S", "T", "U", "V", "W", "X", "Y", "Z", "[", "\\", "]", "^", "_" >>

AsciiHigh ==
  << "a", "b", "c", "d", "e", "f", "g", "h", "i", "j", "k", "l", "m", "n", "o",
     "p", "q", "r", "s", "t", "u", "v", "w", "x", "y", "z", "{", "|", "}", "~" >>

\* ord(c) of a one-character string.
Ord ==
  [c \in {AsciiLow[i] : i \in DOMAIN AsciiLow} \cup {AsciiHigh[i] : i \in DOMAIN AsciiHigh} |->
     IF \E i \in DOMAIN AsciiLow : AsciiLow[i] = c
     THEN 31 + (CHOOSE i \in DOMAIN AsciiLow : AsciiLow[i] = c)
     ELSE 96 + (CHOOSE i \in DOMAIN AsciiHigh : AsciiHigh[i] = c)]

\* The text spelled by a tuple of characters.
T(chars) == [i \in 1..Len(chars) |-> Ord[chars[i]]]

Min(a, b) == IF a <= b THEN a ELSE b
Max(a, b) == IF a >= b THEN a ELSE b

\* s[i..j], empty when j < i (Python's s[i-1:j]).
Slice(s, i, j) == IF j < i THEN <<>> ELSE SubSeq(s, i, j)

\* Whether text pat occurs in s at position i.
At(s, i, pat) ==
  /\ i >= 1
  /\ i + Len(pat) - 1 <= Len(s)
  /\ \A k \in 1..Len(pat) : s[i + k - 1] = pat[k]

\* Python's str.isspace() on the code points the inputs use: the ASCII
\* whitespace characters \t \n \v \f \r, the separators 28..31, and space.
IsSpace(c) == c \in (9..13) \cup (28..32)

\* str.strip(): leading and trailing whitespace removed.
strip(s) ==
  LET keep == {i \in 1..Len(s) : ~IsSpace(s[i])}
  IN  IF keep = {} THEN <<>>
      ELSE LET lo == CHOOSE i \in keep : \A j \in keep : i <= j
               hi == CHOOSE i \in keep : \A j \in keep : i >= j
           IN  SubSeq(s, lo, hi)

\* ------------------------------------------------------------- re.search

\* The class [^\s'\"<>] of the submit-URL pattern.
UrlChar(c) == ~IsSpace(c) /\ c \notin {39, 34, 60, 62}

\* The literal parts of the pattern.
P_https == T(<<"h","t","t","p","s",":","/","/">>)
P_http == T(<<"h","t","t","p",":","/","/">>)
P_submit == T(<<"/","s","u","b","m","i","t">>)

\* Where the text after "https?://" starts for a match attempted at i (0: no scheme at i).
SchemeEnd(s, i) ==
  IF At(s, i, P_https) THEN i + 8
  ELSE IF At(s, i, P_http) THEN i + 7
  ELSE 0

\* The last position of the run of class characters that starts at p (p - 1: none).
RECURSIVE RunEnd(_, _)
RunEnd(s, p) == IF p <= Len(s) /\ UrlChar(s[p]) THEN RunEnd(s, p + 1) ELSE p - 1

\* Whether https?://[^\s'\"<>]+/submit[^\s'\"<>]* matches at position i: the scheme,
\* one or more class characters, "/submit" inside the run of class characters.
MatchAt(s, i) ==
  LET p == SchemeEnd(s, i)
  IN  /\ p # 0
      /\ \E k \in (p + 1)..(RunEnd(s, p) - 6) : At(s, k, P_submit)

\* re.search(r"https?://[^\s'\"<>]+/submit[^\s'\"<>]*", body): the leftmost match,
\* each quantifier greedy, so the match runs to the end of the run of class characters.
re_search(body) ==
  LET starts == {i \in 1..Len(body) : MatchAt(body, i)}
  IN  IF starts = {} THEN [found |-> FALSE, group0 |-> <<>>]
      ELSE LET i == CHOOSE a \in starts : \A b \in starts : a <= b
           IN  [found |-> TRUE, group0 |-> SubSeq(body, i, RunEnd(body, SchemeEnd(body, i)))]

\* --------------------------------------------------------- base64 / utf-8

\* binascii's table_a2b_base64: the 6-bit value of an alphabet character, 64 otherwise.
B64Value(c) ==
  IF c \in 65..90 THEN c - 65
  ELSE IF c \in 97..122 THEN c - 71
  ELSE IF c \in 48..57 THEN c + 4
  ELSE IF c = 43 THEN 62
  ELSE IF c = 47 THEN 63
  ELSE 64

\* binascii.a2b_base64 (not strict) from position i on: characters outside the alphabet
\* are skipped, a complete pad sequence ends the input, and an incomplete last quad is
\* an error (binascii.Error).
RECURSIVE a2b_base64(_, _, _, _, _, _)
a2b_base64(s, i, quad_pos, leftchar, pads, out) ==
  IF i > Len(s) THEN [ok |-> quad_pos = 0, bytes |-> out]
  ELSE LET c == s[i]
           v == B64Value(c)
       IN  IF c = 61
           THEN IF quad_pos >= 2 /\ quad_pos + pads + 1 >= 4
                THEN [ok |-> TRUE, bytes |-> out]
                ELSE a2b_base64(s, i + 1, quad_pos, leftchar,
                                IF quad_pos >= 2 THEN pads + 1 ELSE pads, out)
           ELSE IF v >= 64 THEN a2b_base64(s, i + 1, quad_pos, leftchar, pads, out)
           ELSE IF quad_pos = 0 THEN a2b_base64(s, i + 1, 1, v, 0, out)
           ELSE IF quad_pos = 1
                THEN a2b_base64(s, i + 1, 2, v % 16, 0, Append(out, leftchar * 4 + v \div 16))
           ELSE IF quad_pos = 2
                THEN a2b_base64(s, i + 1, 3, v % 4, 0, Append(out, leftchar * 16 + v \div 4))
           ELSE a2b_base64(s, i + 1, 0, 0, 0, Append(out, leftchar * 64 + v))

\* base64.b64decode(raw) of a str: a str with a non-ASCII character is refused
\* (ValueError), the rest goes through a2b_base64.
b64decode(raw) ==
  IF \E i \in 1..Len(raw) : raw[i] > 127 THEN [ok |-> FALSE, bytes |-> <<>>]
  ELSE a2b_base64(raw, 1, 0, 0, 0, <<>>)

IsCont(b, i) == i <= Len(b) /\ b[i] \in 128..191

\* bytes.decode("utf-8") from position i on (strict): the code points, or
\* UnicodeDecodeError on a byte sequence that is not well-formed UTF-8.
RECURSIVE utf8_decode(_, _, _)
utf8_decode(b, i, out) ==
  IF i > Len(b) THEN [ok |-> TRUE, text |-> out]
  ELSE LET c == b[i]
       IN  IF c < 128 THEN utf8_decode(b, i + 1, Append(out, c))
           ELSE IF c \in 194..223 /\ IsCont(b, i + 1)
                THEN utf8_decode(b, i + 2, Append(out, (c - 192) * 64 + (b[i + 1] - 128)))
           ELSE IF /\ c \in 224..239
                   /\ IsCont(b, i + 1) /\ IsCont(b, i + 2)
                   /\ (c = 224 => b[i + 1] >= 160)
                   /\ (c = 237 => b[i + 1] <= 159)
                THEN utf8_decode(b, i + 3,
                       Append(out, (c - 224) * 4096 + (b[i + 1] - 128) * 64 + (b[i + 2] - 128)))
           ELSE IF /\ c \in 240..244
                   /\ IsCont(b, i + 1) /\ IsCont(b, i + 2) /\ IsCont(b, i + 3)
                   /\ (c = 240 => b[i + 1] >= 144)
                   /\ (c = 244 => b[i + 1] <= 143)
                THEN utf8_decode(b, i + 4,
                       Append(out, (c - 240) * 262144 + (b[i + 1] - 128) * 4096
                                   + (b[i + 2] - 128) * 64 + (b[i + 3] - 128)))
           ELSE [ok |-> FALSE, text |-> <<>>]

\* ------------------------------------------------------------- json.loads

Null == <<"null", <<>>>>
Bool(b) == <<"bool", b>>
Num(n) == <<"num", n>>
Str(x) == <<"str", x>>
Arr(xs) == <<"arr", xs>>
Obj(f) == <<"obj", f>>
TypeOf(x) == x[1]
ValueOf(x) == x[2]

\* The dict d with d[key] = val set (a later duplicate key replaces the earlier).
DictSet(d, key, val) == [k \in DOMAIN d \cup {key} |-> IF k = key THEN val ELSE d[k]]

JsonFail == [ok |-> FALSE, v |-> Null, i |-> 0]

\* json's WHITESPACE.match(s, i).end(): the first position from i on that holds no
\* space, \t, \n or \r.
SkipWs(s, i) ==
  LET rest == {j \in i..Len(s) : s[j] \notin {32, 9, 10, 13}}
  IN  IF rest = {} THEN Max(i, Len(s) + 1) ELSE CHOOSE j \in rest : \A k \in rest : j <= k

\* The character a one-letter escape stands for (0: not one of \" \\ \/ \b \f \n \r \t).
Unescape(c) ==
  IF c \in {34, 92, 47} THEN c
  ELSE IF c = 98 THEN 8
  ELSE IF c = 102 THEN 12
  ELSE IF c = 110 THEN 10
  ELSE IF c = 114 THEN 13
  ELSE IF c = 116 THEN 9
  ELSE 0

\* json.decoder.scanstring (strict) from position i, just after the opening quote:
\* the text up to the closing quote; a control character or a bad escape is an error.
\* (\uXXXX escapes are not among the inputs modelled.)
RECURSIVE scanstring(_, _, _)
scanstring(s, i, acc) ==
  IF i > Len(s) THEN JsonFail
  ELSE IF s[i] = 34 THEN [ok |-> TRUE, v |-> Str(acc), i |-> i + 1]
  ELSE IF s[i] < 32 THEN JsonFail
  ELSE IF s[i] = 92
       THEN IF i + 1 <= Len(s) /\ Unescape(s[i + 1]) # 0
            THEN scanstring(s, i + 2, Append(acc, Unescape(s[i + 1])))
            ELSE JsonFail
  ELSE scanstring(s, i + 1, Append(acc, s[i]))

\* The digits from position i on, as [n, i]: the number they spell after acc and the
\* position that follows them.
RECURSIVE ScanDigits(_, _, _)
ScanDigits(s, i, acc) ==
  IF i <= Len(s) /\ s[i] \in 48..57 THEN ScanDigits(s, i + 1, acc * 10 + (s[i] - 48))
  ELSE [n |-> acc, i |-> i]

\* json.scanner's NUMBER_RE at position i, integer part: -?(0|[1-9]\d*).
\* (Fractions and exponents are not among the inputs modelled.)
ScanNumber(s, i) ==
  LET neg == i <= Len(s) /\ s[i] = 45
      j == IF neg THEN i + 1 ELSE i
  IN  IF j > Len(s) \/ s[j] \notin 48..57 THEN JsonFail
      ELSE IF s[j] = 48 THEN [ok |-> TRUE, v |-> Num(0), i |-> j + 1]
      ELSE LET d == ScanDigits(s, j, 0)
           IN  [ok |-> TRUE, v |-> Num(IF neg THEN 0 - d.n ELSE d.n), i |-> d.i]

\* The literals null, true and false.
L_null == T(<<"n","u","l","l">>)
L_true == T(<<"t","r","u","e">>)
L_false == T(<<"f","a","l","s","e">>)

RECURSIVE scan_once(_, _), JSONArray(_, _, _), JSONObject(_, _, _)

\* json.scanner.scan_once(s, i): the value that starts at position i.
\* (NaN, Infinity and -Infinity are not among the inputs modelled.)
scan_once(s, i) ==
  IF i > Len(s) THEN JsonFail
  ELSE IF s[i] = 34 THEN scanstring(s, i + 1, <<>>)
  ELSE IF s[i] = 123
       THEN LET j == SkipWs(s, i + 1)
            IN  IF j <= Len(s) /\ s[j] = 125 THEN [ok |-> TRUE, v |-> Obj(<<>>), i |-> j + 1]
                ELSE JSONObject(s, j, <<>>)
  ELSE IF s[i] = 91
       THEN LET j == SkipWs(s, i + 1)
            IN  IF j <= Len(s) /\ s[j] = 93 THEN [ok |-> TRUE, v |-> Arr(<<>>), i |-> j + 1]
                ELSE JSONArray(s, j, <<>>)
  ELSE IF At(s, i, L_null) THEN [ok |-> TRUE, v |-> Null, i |-> i + 4]
  ELSE IF At(s, i, L_true) THEN [ok |-> TRUE, v |-> Bool(TRUE), i |-> i + 4]
  ELSE IF At(s, i, L_false) THEN [ok |-> TRUE, v |-> Bool(FALSE), i |-> i + 5]
  ELSE ScanNumber(s, i)

\* json.decoder.JSONArray from the first element at position i, acc the elements so far.
JSONArray(s, i, acc) ==
  LET e == scan_once(s, i)
  IN  IF ~e.ok THEN JsonFail
      ELSE LET j == SkipWs(s, e.i)
           IN  IF j > Len(s) THEN JsonFail
               ELSE IF s[j] = 93 THEN [ok |-> TRUE, v |-> Arr(Append(acc, e.v)), i |-> j + 1]
               ELSE IF s[j] = 44 THEN JSONArray(s, SkipWs(s, j + 1), Append(acc, e.v))
               ELSE JsonFail

\* json.decoder.JSONObject from the first key's quote at position i, acc the dict so far.
JSONObject(s, i, acc) ==
  IF i > Len(s) \/ s[i] # 34 THEN JsonFail
  ELSE LET k == scanstring(s, i + 1, <<>>)
       IN  IF ~k.ok THEN JsonFail
           ELSE LET c == SkipWs(s, k.i)
                IN  IF c > Len(s) \/ s[c] # 58 THEN JsonFail
                    ELSE LET e == scan_once(s, SkipWs(s, c + 1))
                         IN  IF ~e.ok THEN JsonFail
                             ELSE LET j == SkipWs(s, e.i)
                                      d == DictSet(acc, ValueOf(k.v), e.v)
                                  IN  IF j > Len(s) THEN JsonFail
                                      ELSE IF s[j] = 125
                                           THEN [ok |-> TRUE, v |-> Obj(d), i |-> j + 1]
                                      ELSE IF s[j] = 44
                                           THEN JSONObject(s, SkipWs(s, j + 1), d)
                                      ELSE JsonFail

\* json.loads(s): one value with whitespace around it and nothing after it
\* (json.JSONDecodeError otherwise).
json_loads(s) ==
  LET r == scan_once(s, SkipWs(s, 1))
  IN  IF r.ok /\ SkipWs(s, r.i) = Len(s) + 1 THEN [ok |-> TRUE, v |-> r.v]
      ELSE [ok |-> FALSE, v |-> Null]

\* Python's truth value of a value: None, False, 0, "", [] and {} are false.
Truthy(x) ==
  IF TypeOf(x) = "null" THEN FALSE
  ELSE IF TypeOf(x) = "bool" THEN ValueOf(x)
  ELSE IF TypeOf(x) = "num" THEN ValueOf(x) # 0
  ELSE IF TypeOf(x) = "str" \/ TypeOf(x) = "arr" THEN Len(ValueOf(x)) > 0
  ELSE DOMAIN ValueOf(x) # {}

\* ------------------------------------------------------- constants, inputs

MAX_TOTAL_S == 170
FLOOR_S == 5
NAV_CAP_S == 60
POST_TIMEOUT_S == 30
EXCERPT_CAP == 4000

\* Time is counted in ticks, TicksPerSecond of them to a second, so that the
\* truncation int(...) of the remaining seconds shows.
TicksPerSecond == 2

\* The durations (in ticks) an awaited operation may take, and the cap on the clock.
MidDelay == 241
LongDelay == 343
MaxNow == 1200
Delays == {0, MidDelay, LongDelay}

\* Dict keys and fixed texts of the source.
K_email == T(<<"e","m","a","i","l">>)
K_secret == T(<<"s","e","c","r","e","t">>)
K_url == T(<<"u","r","l">>)
K_submit_url == T(<<"s","u","b","m","i","t","_","u","r","l">>)
K_answer == T(<<"a","n","s","w","e","r">>)
K_answer_text == T(<<"a","n","s","w","e","r","_","t","e","x","t">>)

\* Request bodies: a valid request, whose extra field answer collides with the
\* answer's key; a wrong secret; a missing url; a body that is not JSON; a body that
\* is no object.
RequestUrl == T(<<"h","t","t","p",":","/","/","r","/","p">>)
RequestBodies ==
  {
    T(<<"{","\"","e","m","a","i","l","\"",":","\"","e","\"",",","\"","s","e","c","r","e","t","\"",":","\"","s","\"",",","\"","u","r","l","\"",":","\"","h","t","t","p",":","/","/","r","/","p","\"",",","\"","a","n","s","w","e","r","\"",":","\"","m","i","n","e","\"","}">>),
    T(<<"{","\"","e","m","a","i","l","\"",":","\"","e","\"",",","\"","s","e","c","r","e","t","\"",":","\"","b","a","d","\"",",","\"","u","r","l","\"",":","\"","h","t","t","p",":","/","/","r","/","p","\"","}">>),
    T(<<"{","\"","e","m","a","i","l","\"",":","\"","e","\"",",","\"","s","e","c","r","e","t","\"",":","\"","s","\"","}">>),
    T(<<"o","o","p","s">>),
    T(<<"[","1","]">>) }

\* os.getenv("APP_SECRET"): unset (None) or the secret.
Secrets == { [set |-> FALSE, v |-> <<>>], [set |-> TRUE, v |-> T(<<"s">>)] }

\* The inner text of the page's <pre> element: base64 of {"a":1}; base64 of [1,2]
\* with whitespace around; a text with incorrect padding; base64 of the byte 0xFF
\* (no UTF-8); base64 of the text no (no JSON).
NoPre == [present |-> FALSE, text |-> <<>>]
Pre(x) == [present |-> TRUE, text |-> x]
PreA == T(<<"e","y","J","h","I","j","o","x","f","Q","=","=">>)
PreTexts ==
  { PreA,
    <<10, 32>> \o T(<<"W","z","E","s","M","l","0","=">>) \o <<32, 10>>,
    T(<<"e","y","J","h","I","j","o","x","f","Q">>),
    T(<<"/","w","=","=">>),
    T(<<"b","m","8","=">>) }
Pres == {NoPre} \cup {Pre(x) : x \in PreTexts}

\* The rest of the document: no URL; one submit URL in an attribute; a URL that is
\* no submit URL followed by two submit URLs; a submit URL past the excerpt cap.
EmbeddedUrl == T(<<"h","t","t","p",":","/","/","h","/","p","/","s","u","b","m","i","t","?","x","=","1">>)
MarkupPlain == T(<<"<","p",">","h","i","<","/","p",">">>)
MarkupOne == T(<<"<","a"," ","h","r","e","f","=","\"","h","t","t","p",":","/","/","h","/","p","/","s","u","b","m","i","t","?","x","=","1","\"",">","g","o","<","/","a",">">>)
MarkupTwo == T(<<"s","e","e"," ","h","t","t","p",":","/","/","a","/","l","o","g","i","n"," ","t","h","e","n"," ","h","t","t","p","s",":","/","/","b","/","s","u","b","m","i","t",","," ","h","t","t","p",":","/","/","c","/","s","u","b","m","i","t">>)
MarkupLong == [i \in 1..EXCERPT_CAP |-> 32] \o T(<<"h","t","t","p",":","/","/","z","/","s","u","b","m","i","t">>)
Markups == {MarkupPlain, MarkupOne, MarkupTwo, MarkupLong}

\* window.__QUIZ_DATA__: not defined; 0; objects with both endpoint keys, with url
\* only, with an empty submit_url, with neither; a string; an array.
Undefined == <<"undefined", <<>>>>
GlobalUrlS == T(<<"h","t","t","p",":","/","/","g","/","s">>)
GlobalUrlU == T(<<"h","t","t","p",":","/","/","g","/","u">>)
QuizDatas ==
  { Undefined,
    Num(0),
    Obj(DictSet(DictSet(<<>>, K_submit_url, Str(GlobalUrlS)), K_url, Str(GlobalUrlU))),
    Obj(DictSet(<<>>, K_url, Str(GlobalUrlU))),
    Obj(DictSet(DictSet(<<>>, K_submit_url, Str(<<>>)), K_url, Str(GlobalUrlU))),
    Obj(<<>>),
    Str(T(<<"a","b","c">>)),
    Arr(<<Num(1)>>) }

\* The document the browser serialises for a page: its <pre> element, if any, then the rest.
Document(pre, markup) ==
  (IF pre.present THEN T(<<"<","p","r","e",">">>) \o pre.text \o T(<<"<","/","p","r","e",">">>) ELSE <<>>) \o markup

PageOf(p, m, g) == [pre |-> p, content |-> Document(p, m), quiz_data |-> g]

\* The pages a URL may serve: every <pre> text with the plain document, and every
\* document with every global, without a <pre> element and with a good one.
Pages ==
  {PageOf(p, MarkupPlain, Undefined) : p \in Pres}
    \cup {PageOf(p, m, g) : p \in {NoPre, Pre(PreA)}, m \in Markups, g \in QuizDatas}
NoPage == [pre |-> NoPre, content |-> <<>>, quiz_data |-> Undefined]

\* What the oracle may answer: the demo's text, a text that is no JSON, JSON that is
\* an array, a number, an object with the request's extra key.
DemoAnswer == T(<<"{","\"","a","n","s","w","e","r","\"",":"," ","\"","d","e","m","o","\"","}">>)
OracleTexts ==
  { DemoAnswer,
    T(<<"n","o","t"," ","j","s","o","n">>),
    T(<<"[","1",",","2","]">>),
    T(<<"5">>),
    T(<<"{","\"","a","n","s","w","e","r","\"",":"," ","7",","," ","\"","e","x","t","r","a","\"",":"," ","\"","x","\"","}">>) }

\* What the submission endpoint may answer.
Statuses == {200, 302, 500}
ResponseBodies == { T(<<"{","\"","c","o","r","r","e","c","t","\"",":","t","r","u","e","}">>), T(<<"o","k">>) }

\* ------------------------------------------------------------------ state

VARIABLES
  request,          \* the request's body (text)
  app_secret,       \* APP_SECRET
  pc,               \* where quiz_endpoint (and the call it awaits) stands
  now,              \* time.time() - start, in ticks
  payload_json,     \* the parsed request body
  time_remaining,   \* quiz_endpoint's time_remaining, in seconds
  nav_timeout,      \* timeout_s given to fetch_quiz_page_and_extract (0: not called)
  solve_time,       \* time_remaining_s given to parse_and_solve (0: not called)
  playwright,       \* the driver of async_playwright(): "none", "running", "stopped"
  browser,          \* "none", "open", "closed"
  context,          \* "none", "open", "closed"
  tab,              \* the page object of the context: "none", "open", "closed"
  page,             \* the page the browser has loaded (NoPage: none)
  result,           \* fetch_quiz_page_and_extract's result dict
  extracted,        \* quiz_endpoint's extracted
  pending,          \* the exception being propagated ("none": none)
  oracle_calls,     \* calls of call_gemini
  excerpt,          \* the page excerpt of the last prompt
  gemini_out,       \* call_gemini's answer
  answer_payload,   \* parse_and_solve's return value
  submit_url,       \* the resolved target
  posts,            \* the POSTs issued: [url, json, timeout]
  resp_status,      \* resp.status_code of the POST's response (0: no response)
  response,         \* what the caller receives
  log,              \* the stages' events: [ev, stage], ev "start", "end" or "raise"
                    \* (the navigation inside render has a start of its own)
  grants            \* the timeouts given to blocking stages: [stage, timeout, budget]

vars ==
  << request, app_secret, pc, now, payload_json, time_remaining, nav_timeout, solve_time,
     playwright, browser, context, tab, page, result, extracted, pending, oracle_calls,
     excerpt, gemini_out, answer_payload, submit_url, posts, resp_status, response, log,
     grants >>

inputVars == << request, app_secret >>
timeVars == << time_remaining, nav_timeout, solve_time >>
browserVars == << playwright, browser, context, tab >>
solveVars == << oracle_calls, excerpt, gemini_out, answer_payload >>
submitVars == << submit_url, posts, resp_status >>

NoResponse == [kind |-> "none", status |-> 0, submitted_to |-> Null, result |-> Null]
HTTPException(status) == [kind |-> "error", status |-> status, submitted_to |-> Null, result |-> Null]
Success(url, res) == [kind |-> "ok", status |-> 200, submitted_to |-> url, result |-> res]

\* A call without a timeout.
NoTimeout == -1

Event(ev, stage) == [ev |-> ev, stage |-> stage]
Grant(stage, timeout, budget) == [stage |-> stage, timeout |-> timeout, budget |-> budget]

\* dict.get(key, default).
Get(d, key, default) == IF key \in DOMAIN d THEN d[key] ELSE default

\* int(x) of the quotient n / d: truncation toward zero.
Trunc(n, d) == IF n >= 0 THEN n \div d ELSE 0 - ((0 - n) \div d)

\* int(MAX_TOTAL_S - elapsed): the remaining time without the floor of max(5, ...).
RemainingUnclamped(elapsed) == Trunc(MAX_TOTAL_S * TicksPerSecond - elapsed, TicksPerSecond)

\* int(max(5, MAX_TOTAL_S - elapsed)) for elapsed in ticks.
Remaining(elapsed) ==
  Trunc(Max(FLOOR_S * TicksPerSecond, MAX_TOTAL_S * TicksPerSecond - elapsed), TicksPerSecond)

Init ==
  /\ request \in RequestBodies
  /\ app_secret \in Secrets
  /\ pc = "request"
  /\ now = 0
  /\ payload_json = Null
  /\ time_remaining = 0
  /\ nav_timeout = 0
  /\ solve_time = 0
  /\ playwright = "none"
  /\ browser = "none"
  /\ context = "none"
  /\ tab = "none"
  /\ page = NoPage
  /\ result = <<>>
  /\ extracted = <<>>
  /\ pending = "none"
  /\ oracle_calls = 0
  /\ excerpt = <<>>
  /\ gemini_out = <<>>
  /\ answer_payload = Null
  /\ submit_url = Null
  /\ posts = <<>>
  /\ resp_status = 0
  /\ response = NoResponse
  /\ log = <<>>
  /\ grants = <<>>

\* QuizPayload(**payload_json): the body is an object with the str fields email,
\* secret and url; other fields are allowed.
ValidPayload(pj) ==
  /\ TypeOf(pj) = "obj"
  /\ \A k \in {K_email, K_secret, K_url} :
       k \in DOMAIN ValueOf(pj) /\ TypeOf(ValueOf(pj)[k]) = "str"

\* quiz_endpoint up to the call of fetch_quiz_page_and_extract: the body is read
\* (taking d ticks) and parsed, the payload validated, the secret compared, and the
\* first time_remaining computed.
Validate ==
  /\ pc = "request"
  /\ \E d \in Delays :
       LET body == json_loads(request)
       IN  /\ now + d <= MaxNow
           /\ now' = now + d
           /\ IF ~body.ok \/ ~ValidPayload(body.v)
              THEN /\ response' = HTTPException(400)
                   /\ pc' = "done"
                   /\ UNCHANGED << payload_json, timeVars, log, grants >>
              ELSE IF ~app_secret.set
              THEN /\ response' = HTTPException(500)
                   /\ pc' = "done"
                   /\ UNCHANGED << payload_json, timeVars, log, grants >>
              ELSE IF ValueOf(ValueOf(body.v)[K_secret]) # app_secret.v
              THEN /\ response' = HTTPException(403)
                   /\ pc' = "done"
                   /\ UNCHANGED << payload_json, timeVars, log, grants >>
              ELSE /\ payload_json' = body.v
                   /\ time_remaining' = Remaining(now')
                   /\ nav_timeout' = Min(NAV_CAP_S, time_remaining')
                   /\ pc' = "start_playwright"
                   /\ log' = Append(log, Event("start", "render"))
                   /\ grants' = Append(grants, Grant("navigation", nav_timeout', time_remaining'))
                   /\ UNCHANGED << solve_time, response >>
  /\ UNCHANGED << inputVars, browserVars, page, result, extracted, pending, solveVars, submitVars >>

\* ------------------------------------------- fetch_quiz_page_and_extract

\* log with the raise of stage added, unless an exception is already on its way.
Raised(stage) == IF pending = "none" THEN Append(log, Event("raise", stage)) ELSE log

\* async_playwright().__aenter__: the driver starts, or the start fails and the
\* exception leaves fetch_quiz_page_and_extract.
StartPlaywright ==
  /\ pc = "start_playwright"
  /\ \/ /\ playwright' = "running"
        /\ pc' = "launch"
        /\ UNCHANGED << pending, log >>
     \/ /\ pending' = "Error"
        /\ log' = Raised("render")
        /\ pc' = "raised"
        /\ UNCHANGED playwright
  /\ UNCHANGED << inputVars, now, payload_json, timeVars, browser, context, tab, page, result,
                  extracted, solveVars, submitVars, response, grants >>

\* p.chromium.launch(...): outside the try, so a failure leaves through the
\* async with only.
Launch ==
  /\ pc = "launch"
  /\ \/ /\ browser' = "open"
        /\ pc' = "new_context"
        /\ UNCHANGED << pending, log >>
     \/ /\ pending' = "Error"
        /\ log' = Raised("render")
        /\ pc' = "exit_playwright"
        /\ UNCHANGED browser
  /\ UNCHANGED << inputVars, now, payload_json, timeVars, playwright, context, tab, page,
                  result, extracted, solveVars, submitVars, response, grants >>

\* browser.new_context(): outside the try.
NewContext ==
  /\ pc = "new_context"
  /\ \/ /\ context' = "open"
        /\ pc' = "new_page"
        /\ UNCHANGED << pending, log >>
     \/ /\ pending' = "Error"
        /\ log' = Raised("render")
        /\ pc' = "exit_playwright"
        /\ UNCHANGED context
  /\ UNCHANGED << inputVars, now, payload_json, timeVars, playwright, browser, tab, page,
                  result, extracted, solveVars, submitVars, response, grants >>

\* context.new_page(): outside the try.
NewPage ==
  /\ pc = "new_page"
  /\ \/ /\ tab' = "open"
        /\ pc' = "goto"
        /\ UNCHANGED << pending, log >>
     \/ /\ pending' = "Error"
        /\ log' = Raised("render")
        /\ pc' = "exit_playwright"
        /\ UNCHANGED tab
  /\ UNCHANGED << inputVars, now, payload_json, timeVars, playwright, browser, context, page,
                  result, extracted, solveVars, submitVars, response, grants >>

\* page.goto(url, wait_until="networkidle", timeout=timeout_s * 1000), outside the
\* try: the page loads within the timeout and result = {} follows; or the timeout
\* passes (TimeoutError); or the navigation fails at once.
Goto ==
  /\ pc = "goto"
  /\ \/ \E p \in Pages, d \in Delays :
          /\ d < nav_timeout * TicksPerSecond
          /\ now + d <= MaxNow
          /\ now' = now + d
          /\ page' = p
          /\ result' = <<>>
          /\ log' = Append(log, Event("start", "navigation"))
          /\ pc' = "pre"
          /\ UNCHANGED pending
     \/ /\ now + nav_timeout * TicksPerSecond <= MaxNow
        /\ now' = now + nav_timeout * TicksPerSecond
        /\ pending' = "TimeoutError"
        /\ log' = log \o << Event("start", "navigation"), Event("raise", "render") >>
        /\ pc' = "exit_playwright"
        /\ UNCHANGED << page, result >>
     \/ /\ pending' = "Error"
        /\ log' = log \o << Event("start", "navigation"), Event("raise", "render") >>
        /\ pc' = "exit_playwright"
        /\ UNCHANGED << now, page, result >>
  /\ UNCHANGED << inputVars, payload_json, timeVars, browserVars, extracted, solveVars,
                  submitVars, response, grants >>

\* page.query_selector("pre") and pre.inner_text(), inside try ... finally with no
\* except: the text is stored under raw_pre when the element exists; a failure of
\* either call goes to the finally block and on.
PreLookup ==
  /\ pc = "pre"
  /\ \/ /\ result' = IF page.pre.present THEN DictSet(result, "raw_pre", page.pre.text)
                     ELSE result
        /\ pc' = "evaluate"
        /\ UNCHANGED << pending, log >>
     \/ /\ pending' = "Error"
        /\ log' = Raised("render")
        /\ pc' = "close_context"
        /\ UNCHANGED result
  /\ UNCHANGED << inputVars, now, payload_json, timeVars, browserVars, page, extracted,
                  solveVars, submitVars, response, grants >>

\* JavaScript's truth value of a value: undefined, null, false, 0 and "" are false.
JsTruthy(x) ==
  IF TypeOf(x) = "undefined" \/ TypeOf(x) = "null" THEN FALSE
  ELSE IF TypeOf(x) = "bool" THEN ValueOf(x)
  ELSE IF TypeOf(x) = "num" THEN ValueOf(x) # 0
  ELSE IF TypeOf(x) = "str" THEN Len(ValueOf(x)) > 0
  ELSE TRUE

\* page.evaluate("() => window.__QUIZ_DATA__ || null") inside its own try ... except
\* Exception: pass: the value is stored under window_quiz_data, or the failure is dropped.
Evaluate ==
  /\ pc = "evaluate"
  /\ \/ result' = DictSet(result, "window_quiz_data",
                          IF JsTruthy(page.quiz_data) THEN page.quiz_data ELSE Null)
     \/ UNCHANGED result
  /\ pc' = "content"
  /\ UNCHANGED << inputVars, now, payload_json, timeVars, browserVars, page, extracted, pending,
                  solveVars, submitVars, response, log, grants >>

\* result["body_text"] = await page.content(), inside try ... finally.
Content ==
  /\ pc = "content"
  /\ \/ /\ result' = DictSet(result, "body_text", page.content)
        /\ UNCHANGED << pending, log >>
     \/ /\ pending' = "Error"
        /\ log' = Raised("render")
        /\ UNCHANGED result
  /\ pc' = "close_context"
  /\ UNCHANGED << inputVars, now, payload_json, timeVars, browserVars, page, extracted,
                  solveVars, submitVars, response, grants >>

\* finally: await context.close(). The context and its page close; a failure of the
\* call skips browser.close().
CloseContext ==
  /\ pc = "close_context"
  /\ \/ /\ context' = "closed"
        /\ tab' = "closed"
        /\ pc' = "close_browser"
        /\ UNCHANGED << pending, log >>
     \/ /\ pending' = "Error"
        /\ log' = Raised("render")
        /\ pc' = "exit_playwright"
        /\ UNCHANGED << context, tab >>
  /\ UNCHANGED << inputVars, now, payload_json, timeVars, playwright, browser, page, result,
                  extracted, solveVars, submitVars, response, grants >>

\* finally: await browser.close().
CloseBrowser ==
  /\ pc = "close_browser"
  /\ \/ /\ browser' = "closed"
        /\ UNCHANGED << pending, log >>
     \/ /\ pending' = "Error"
        /\ log' = Raised("render")
        /\ UNCHANGED browser
  /\ pc' = "exit_playwright"
  /\ UNCHANGED << inputVars, now, payload_json, timeVars, playwright, context, tab, page, result,
                  extracted, solveVars, submitVars, response, grants >>

\* The end of async with async_playwright(): the driver stops; return result reaches
\* quiz_endpoint's extracted, or the exception on its way leaves the call.
ExitPlaywright ==
  /\ pc = "exit_playwright"
  /\ playwright' = "stopped"
  /\ IF pending = "none"
     THEN /\ extracted' = result
          /\ log' = Append(log, Event("end", "render"))
          /\ pc' = "solve"
     ELSE /\ pc' = "raised"
          /\ UNCHANGED << extracted, log >>
  /\ UNCHANGED << inputVars, now, payload_json, timeVars, browser, context, tab, page, result,
                  pending, solveVars, submitVars, response, grants >>

\* -------------------------------------------------------- parse_and_solve

\* The try block of parse_and_solve on raw_pre: strip, base64.b64decode, decode
\* as UTF-8, json.loads; ok is false when any of them raises.
Candidate(raw_pre) ==
  LET raw == strip(raw_pre)
      decoded == b64decode(raw)
      text == IF decoded.ok THEN utf8_decode(decoded.bytes, 1, <<>>) ELSE [ok |-> FALSE, text |-> <<>>]
      parsed == IF text.ok THEN json_loads(text.text) ELSE [ok |-> FALSE, v |-> Null]
  IN  parsed

\* extracted.get('body_text', ''): the markup without the [:4000] slice.
ExcerptWhole(ex) == Get(ex, "body_text", <<>>)

\* extracted.get('body_text', '')[:4000].
Excerpt(ex) == Slice(Get(ex, "body_text", <<>>), 1, Min(EXCERPT_CAP, Len(Get(ex, "body_text", <<>>))))

\* quiz_endpoint recomputes time_remaining and calls parse_and_solve, whose first
\* tier returns {"answer": candidate} when raw_pre is there, decodes and parses;
\* every exception of the tier is dropped and the oracle tier follows.
DeterministicTier ==
  /\ pc = "solve"
  /\ time_remaining' = Remaining(now)
  /\ solve_time' = time_remaining'
  /\ IF "raw_pre" \in DOMAIN extracted /\ Candidate(extracted["raw_pre"]).ok
     THEN /\ answer_payload' = Obj(DictSet(<<>>, K_answer, Candidate(extracted["raw_pre"]).v))
          /\ log' = log \o << Event("start", "derive"), Event("end", "derive") >>
          /\ pc' = "resolve"
     ELSE /\ log' = Append(log, Event("start", "derive"))
          /\ pc' = "oracle"
          /\ UNCHANGED answer_payload
  /\ UNCHANGED << inputVars, now, payload_json, nav_timeout, browserVars, page, result, extracted,
                  pending, oracle_calls, excerpt, gemini_out, submitVars, response, grants >>

\* gemini_out = await call_gemini(prompt), the prompt holding the excerpt of
\* body_text. call_gemini stands for the oracle: it takes no timeout, answers one of
\* OracleTexts (the demo returns DemoAnswer) after d ticks, or raises.
CallGemini ==
  /\ pc = "oracle"
  /\ excerpt' = Excerpt(extracted)
  /\ oracle_calls' = oracle_calls + 1
  /\ grants' = Append(grants, Grant("oracle", NoTimeout, Remaining(now)))
  /\ \/ \E text \in OracleTexts, d \in Delays :
          /\ now + d <= MaxNow
          /\ now' = now + d
          /\ gemini_out' = text
          /\ pc' = "oracle_parse"
          /\ UNCHANGED << pending, log >>
     \/ /\ pending' = "Error"
        /\ log' = Raised("derive")
        /\ pc' = "raised"
        /\ UNCHANGED << now, gemini_out >>
  /\ UNCHANGED << inputVars, payload_json, timeVars, browserVars, page, result, extracted,
                  answer_payload, submitVars, response >>

\* The end of parse_and_solve without the except around json.loads(gemini_out): a
\* text that does not parse raises.
OracleParseStrict ==
  /\ pc = "oracle_parse"
  /\ IF json_loads(gemini_out).ok
     THEN /\ answer_payload' = json_loads(gemini_out).v
          /\ log' = Append(log, Event("end", "derive"))
          /\ pc' = "resolve"
          /\ UNCHANGED pending
     ELSE /\ pending' = "JSONDecodeError"
          /\ log' = Raised("derive")
          /\ pc' = "raised"
          /\ UNCHANGED answer_payload
  /\ UNCHANGED << inputVars, now, payload_json, timeVars, browserVars, page, result, extracted,
                  oracle_calls, excerpt, gemini_out, submitVars, response, grants >>

\* The end of parse_and_solve: json.loads(gemini_out) is returned when it parses,
\* {"answer_text": gemini_out} otherwise.
OracleParse ==
  /\ pc = "oracle_parse"
  /\ answer_payload' = IF json_loads(gemini_out).ok THEN json_loads(gemini_out).v
                       ELSE Obj(DictSet(<<>>, K_answer_text, Str(gemini_out)))
  /\ log' = Append(log, Event("end", "derive"))
  /\ pc' = "resolve"
  /\ UNCHANGED << inputVars, now, payload_json, timeVars, browserVars, page, result, extracted,
                  pending, oracle_calls, excerpt, gemini_out, submitVars, response, grants >>

\* ------------------------------------------------------------ quiz_endpoint

\* extracted.get("window_quiz_data") or {}.
WData(ex) ==
  IF Truthy(Get(ex, "window_quiz_data", Null)) THEN Get(ex, "window_quiz_data", Null)
  ELSE Obj(<<>>)

\* wdata.get("url") or wdata.get("submit_url") or payload.url: the two fields in the
\* other order.
FromDataUrlFirst(wdata, url) ==
  IF Truthy(Get(ValueOf(wdata), K_url, Null)) THEN Get(ValueOf(wdata), K_url, Null)
  ELSE IF Truthy(Get(ValueOf(wdata), K_submit_url, Null)) THEN Get(ValueOf(wdata), K_submit_url, Null)
  ELSE Str(url)

\* wdata.get("submit_url") or wdata.get("url") or payload.url, for a dict wdata.
FromData(wdata, url) ==
  IF Truthy(Get(ValueOf(wdata), K_submit_url, Null)) THEN Get(ValueOf(wdata), K_submit_url, Null)
  ELSE IF Truthy(Get(ValueOf(wdata), K_url, Null)) THEN Get(ValueOf(wdata), K_url, Null)
  ELSE Str(url)

\* The submit URL is looked for: the first match of the pattern in body_text, else
\* the fields of window_quiz_data, else the request's url. wdata.get raises
\* AttributeError when window_quiz_data is true and no dict.
Resolve ==
  /\ pc = "resolve"
  /\ LET m == re_search(Get(extracted, "body_text", <<>>))
         wdata == WData(extracted)
     IN  IF m.found
         THEN /\ submit_url' = Str(m.group0)
              /\ log' = log \o << Event("start", "resolve"), Event("end", "resolve") >>
              /\ pc' = "post"
              /\ UNCHANGED pending
         ELSE IF TypeOf(wdata) = "obj"
         THEN /\ submit_url' = FromData(wdata, ValueOf(ValueOf(payload_json)[K_url]))
              /\ log' = log \o << Event("start", "resolve"), Event("end", "resolve") >>
              /\ pc' = "post"
              /\ UNCHANGED pending
         ELSE /\ pending' = "AttributeError"
              /\ log' = log \o << Event("start", "resolve"), Event("raise", "resolve") >>
              /\ pc' = "raised"
              /\ UNCHANGED submit_url
  /\ UNCHANGED << inputVars, now, payload_json, timeVars, browserVars, page, result, extracted,
                  solveVars, posts, resp_status, response, grants >>

\* {**a, **b} for dicts a and b.
Merge(a, b) == [k \in DOMAIN a \cup DOMAIN b |-> IF k \in DOMAIN b THEN b[k] ELSE a[k]]

\* client.post(submit_url, json={**payload_json, **answer_payload}, headers=headers)
\* on an AsyncClient(timeout=30.0): the body is built (TypeError when answer_payload
\* is no mapping) and the request sent.
Post ==
  /\ pc = "post"
  /\ IF TypeOf(answer_payload) = "obj"
     THEN /\ posts' = Append(posts, [url |-> submit_url,
                                     json |-> Obj(Merge(ValueOf(payload_json), ValueOf(answer_payload))),
                                     timeout |-> POST_TIMEOUT_S])
          /\ grants' = Append(grants, Grant("submit", POST_TIMEOUT_S, Remaining(now)))
          /\ log' = Append(log, Event("start", "submit"))
          /\ pc' = "post_response"
          /\ UNCHANGED pending
     ELSE /\ pending' = "TypeError"
          /\ log' = log \o << Event("start", "submit"), Event("raise", "submit") >>
          /\ pc' = "raised"
          /\ UNCHANGED << posts, grants >>
  /\ UNCHANGED << inputVars, now, payload_json, timeVars, browserVars, page, result, extracted,
                  solveVars, submit_url, resp_status, response >>

\* The POST ends, without resp.raise_for_status(): a response of any status whose
\* body parses is returned as a success.
PostResponseUnchecked ==
  /\ pc = "post_response"
  /\ \/ \E status \in Statuses, body \in ResponseBodies, d \in Delays :
          /\ d <= POST_TIMEOUT_S * TicksPerSecond
          /\ now + d <= MaxNow
          /\ now' = now + d
          /\ resp_status' = status
          /\ IF json_loads(body).ok
             THEN /\ response' = Success(submit_url, json_loads(body).v)
                  /\ log' = Append(log, Event("end", "submit"))
                  /\ pc' = "done"
                  /\ UNCHANGED pending
             ELSE /\ pending' = "JSONDecodeError"
                  /\ log' = Raised("submit")
                  /\ pc' = "raised"
                  /\ UNCHANGED response
     \/ /\ now + POST_TIMEOUT_S * TicksPerSecond <= MaxNow
        /\ now' = now + POST_TIMEOUT_S * TicksPerSecond
        /\ pending' = "HTTPError"
        /\ log' = Raised("submit")
        /\ pc' = "raised"
        /\ UNCHANGED << resp_status, response >>
     \/ /\ pending' = "HTTPError"
        /\ log' = Raised("submit")
        /\ pc' = "raised"
        /\ UNCHANGED << now, resp_status, response >>
  /\ UNCHANGED << inputVars, payload_json, timeVars, browserVars, page, result, extracted,
                  solveVars, submit_url, posts, grants >>

\* The POST ends: a response with a status and a body after d ticks, on which
\* raise_for_status() raises unless the status is 2xx and resp.json() raises
\* unless the body parses; or the timeout passes; or the transport fails (each an
\* httpx.HTTPError).
\* A response that passes both is returned with ok and submitted_to.
PostResponse ==
  /\ pc = "post_response"
  /\ \/ \E status \in Statuses, body \in ResponseBodies, d \in Delays :
          /\ d <= POST_TIMEOUT_S * TicksPerSecond
          /\ now + d <= MaxNow
          /\ now' = now + d
          /\ resp_status' = status
          /\ IF status \in 200..299 /\ json_loads(body).ok
             THEN /\ response' = Success(submit_url, json_loads(body).v)
                  /\ log' = Append(log, Event("end", "submit"))
                  /\ pc' = "done"
                  /\ UNCHANGED pending
             ELSE /\ pending' = IF status \in 200..299 THEN "JSONDecodeError" ELSE "HTTPError"
                  /\ log' = Raised("submit")
                  /\ pc' = "raised"
                  /\ UNCHANGED response
     \/ /\ now + POST_TIMEOUT_S * TicksPerSecond <= MaxNow
        /\ now' = now + POST_TIMEOUT_S * TicksPerSecond
        /\ pending' = "HTTPError"
        /\ log' = Raised("submit")
        /\ pc' = "raised"
        /\ UNCHANGED << resp_status, response >>
     \/ /\ pending' = "HTTPError"
        /\ log' = Raised("submit")
        /\ pc' = "raised"
        /\ UNCHANGED << now, resp_status, response >>
  /\ UNCHANGED << inputVars, payload_json, timeVars, browserVars, page, result, extracted,
                  solveVars, submit_url, posts, grants >>

\* An exception leaves quiz_endpoint: the caller receives a 500 response.
Unhandled ==
  /\ pc = "raised"
  /\ response' = HTTPException(500)
  /\ pc' = "done"
  /\ UNCHANGED << inputVars, now, payload_json, timeVars, browserVars, page, result, extracted,
                  pending, solveVars, submitVars, log, grants >>

Next ==
  \/ Validate
  \/ StartPlaywright
  \/ Launch
  \/ NewContext
  \/ NewPage
  \/ Goto
  \/ PreLookup
  \/ Evaluate
  \/ Content
  \/ CloseContext
  \/ CloseBrowser
  \/ ExitPlaywright
  \/ DeterministicTier
  \/ CallGemini
  \/ OracleParse
  \/ Resolve
  \/ Post
  \/ PostResponse
  \/ Unhandled

Spec == Init /\ [][Next]_vars

\* ----------------------------------------------------------------- claims

LogHas(e) == \E i \in 1..Len(log) : log[i] = e
Count(e) == Cardinality({i \in 1..Len(log) : log[i] = e})
HasRaise == \E i \in 1..Len(log) : log[i].ev = "raise"
Stages == {"render", "navigation", "derive", "resolve", "submit"}

\* The events of a request that went through, without and with the oracle tier's part
\* (the oracle tier adds no event of its own: it is part of derive).
FullLog ==
  << Event("start", "render"), Event("start", "navigation"), Event("end", "render"),
     Event("start", "derive"), Event("end", "derive"),
     Event("start", "resolve"), Event("end", "resolve"),
     Event("start", "submit"), Event("end", "submit") >>

\* C1: once a stage has raised nothing more is started and the caller gets a failure;
\* success is answered only after render, derive, resolve and a 2xx POST have all
\* completed, in this order; no stage is started twice, and at most one POST is sent.
C1_FirstFailureEndsPipeline ==
  /\ \A i \in 1..Len(log) : log[i].ev = "raise" => i = Len(log)
  /\ HasRaise => response.kind # "ok" /\ (pc = "done" => response.kind = "error")
  /\ response.kind = "ok" =>
       /\ log = FullLog
       /\ page # NoPage
       /\ Len(posts) = 1
       /\ resp_status \in 200..299
       /\ response.submitted_to = submit_url
  /\ \A stage \in Stages : Count(Event("start", stage)) <= 1
  /\ Len(posts) <= 1

\* C1's case: the submission was answered 500, the POST raised and the caller got an error.
C1_Witness ==
  /\ pc = "done"
  /\ resp_status = 500
  /\ LogHas(Event("raise", "submit"))
  /\ Len(posts) = 1
  /\ response.kind = "error"

\* C9: the remaining budget and the timeouts derived from it that are passed to a
\* stage (fetch's timeout_s, parse_and_solve's time_remaining_s) are at least 5 seconds.
C9_RemainingAtLeastFloor ==
  /\ LogHas(Event("start", "render")) =>
       /\ time_remaining >= 5
       /\ nav_timeout >= 5
       /\ \A i \in 1..Len(grants) : grants[i].stage = "navigation" => grants[i].timeout >= 5
  /\ LogHas(Event("start", "derive")) => solve_time >= 5

\* C9's case: more than the allowance has passed when parse_and_solve is called, and
\* both timeouts were clamped to the floor.
C9_Witness ==
  /\ LogHas(Event("start", "derive"))
  /\ now > MAX_TOTAL_S * TicksPerSecond
  /\ solve_time = 5
  /\ nav_timeout = 5

\* Whether a captured <pre> text base64-decodes, is UTF-8 and parses as JSON.
DecodesAndParses(pre) ==
  /\ pre.present
  /\ b64decode(pre.text).ok
  /\ utf8_decode(b64decode(pre.text).bytes, 1, <<>>).ok
  /\ json_loads(utf8_decode(b64decode(pre.text).bytes, 1, <<>>).text).ok

ParsedPre(pre) == json_loads(utf8_decode(b64decode(pre.text).bytes, 1, <<>>).text).v

IsPrefix(a, b) == Len(a) <= Len(b) /\ \A i \in 1..Len(a) : a[i] = b[i]

\* C6: per call of parse_and_solve the oracle is called zero times when the <pre>
\* text decodes and parses and exactly once otherwise, and the excerpt of a prompt is
\* the start of the markup, at most 4000 characters of it.
C6_OracleCalledAtMostOnce ==
  /\ oracle_calls \in {0, 1}
  /\ (LogHas(Event("start", "derive")) /\ DecodesAndParses(page.pre)) => oracle_calls = 0
  /\ (LogHas(Event("end", "derive")) /\ ~DecodesAndParses(page.pre)) => oracle_calls = 1
  /\ oracle_calls = 1 =>
       /\ Len(excerpt) <= 4000
       /\ IsPrefix(excerpt, page.content)
       /\ Len(page.content) <= 4000 => excerpt = page.content

\* C6's case: the oracle was called for a page whose markup is longer than the cap.
C6_Witness ==
  /\ LogHas(Event("end", "derive"))
  /\ oracle_calls = 1
  /\ Len(page.content) > 4000
  /\ Len(excerpt) = 4000

\* C7: parse_and_solve returns {answer: parsed} when the <pre> text decodes and
\* parses, else the oracle's answer parsed as JSON, else {answer_text: the answer};
\* a decode or parse failure never raises (only the oracle call itself can).
C7_DeriveFallsThrough ==
  /\ LogHas(Event("end", "derive")) =>
       answer_payload =
         IF DecodesAndParses(page.pre) THEN Obj(DictSet(<<>>, K_answer, ParsedPre(page.pre)))
         ELSE IF json_loads(gemini_out).ok THEN json_loads(gemini_out).v
         ELSE Obj(DictSet(<<>>, K_answer_text, Str(gemini_out)))
  /\ LogHas(Event("raise", "derive")) => oracle_calls = 1 /\ gemini_out = <<>>
  /\ (LogHas(Event("start", "derive")) /\ pc \notin {"oracle", "oracle_parse"}) =>
       LogHas(Event("end", "derive")) \/ LogHas(Event("raise", "derive"))
  /\ (LogHas(Event("end", "derive")) /\ page.pre = Pre(PreA)) =>
       /\ answer_payload = Obj(DictSet(<<>>, K_answer, Obj(DictSet(<<>>, T(<<"a">>), Num(1)))))
       /\ oracle_calls = 0
  /\ (LogHas(Event("end", "derive")) /\ ~page.pre.present /\ gemini_out = T(<<"n","o","t"," ","j","s","o","n">>)) =>
       answer_payload = Obj(DictSet(<<>>, K_answer_text, Str(T(<<"n","o","t"," ","j","s","o","n">>))))

\* C7's case: the <pre> text did not decode, the oracle's answer did not parse, and
\* the answer wraps the oracle's text.
C7_Witness ==
  /\ LogHas(Event("end", "derive"))
  /\ page.pre.present
  /\ ~b64decode(page.pre.text).ok
  /\ ~json_loads(gemini_out).ok
  /\ answer_payload = Obj(DictSet(<<>>, K_answer_text, Str(gemini_out)))

\* Whether body[i..j] is a submit URL: http:// or https://, one or more characters,
\* /submit, any characters; none of them whitespace, a quote or an angle bracket.
SubmitUrlAt(body, i, j) ==
  /\ j <= Len(body)
  /\ \E n \in {7, 8} :
       /\ Slice(body, i, i + n - 1) = (IF n = 7 THEN P_http ELSE P_https)
       /\ \E k \in (i + n + 1)..(j - 6) : Slice(body, k, k + 6) = P_submit
       /\ \A x \in (i + n)..j : UrlChar(body[x])

\* The positions of body where "http" starts.
SchemeStarts(body) ==
  {i \in 1..(Len(body) - 3) :
     body[i] = 104 /\ body[i + 1] = 116 /\ body[i + 2] = 116 /\ body[i + 3] = 112}

\* The positions of body where a submit URL starts.
SubmitUrlStarts(body) ==
  {i \in SchemeStarts(body) : \E j \in i..Len(body) : SubmitUrlAt(body, i, j)}

\* The value of window_quiz_data's field key, when extracted holds a dict there and
\* the field is true; Null otherwise.
DataField(ex, key) ==
  IF /\ "window_quiz_data" \in DOMAIN ex
     /\ TypeOf(ex["window_quiz_data"]) = "obj"
     /\ key \in DOMAIN ValueOf(ex["window_quiz_data"])
     /\ Truthy(ValueOf(ex["window_quiz_data"])[key])
  THEN ValueOf(ex["window_quiz_data"])[key]
  ELSE Null

\* C4: the resolved target is the first submit URL of the markup, left to right;
\* without one, window_quiz_data's submit_url, then its url; without these, the
\* request's url.
C4_TargetPrecedence ==
  LogHas(Event("end", "resolve")) =>
    LET body == Get(extracted, "body_text", <<>>)
        starts == SubmitUrlStarts(body)
    IN  /\ starts # {} =>
             \E i \in starts :
               /\ \A k \in starts : i <= k
               /\ \E j \in i..Len(body) :
                    SubmitUrlAt(body, i, j) /\ submit_url = Str(SubSeq(body, i, j))
        /\ (starts = {} /\ DataField(extracted, K_submit_url) # Null) =>
             submit_url = DataField(extracted, K_submit_url)
        /\ (starts = {} /\ DataField(extracted, K_submit_url) = Null
              /\ DataField(extracted, K_url) # Null) =>
             submit_url = DataField(extracted, K_url)
        /\ (starts = {} /\ DataField(extracted, K_submit_url) = Null
              /\ DataField(extracted, K_url) = Null) =>
             submit_url = Str(RequestUrl)
        /\ page.content = Document(page.pre, MarkupOne) => submit_url = Str(EmbeddedUrl)
        /\ page.content = Document(page.pre, MarkupTwo) => submit_url = Str(T(<<"h","t","t","p","s",":","/","/","b","/","s","u","b","m","i","t",",">>))

\* C4's case: the markup holds a submit URL and window_quiz_data a submit_url; the
\* embedded URL is the target.
C4_Witness ==
  /\ LogHas(Event("end", "resolve"))
  /\ DataField(extracted, K_submit_url) = Str(GlobalUrlS)
  /\ SubmitUrlStarts(Get(extracted, "body_text", <<>>)) # {}
  /\ submit_url = Str(EmbeddedUrl)


\* C2: when fetch_quiz_page_and_extract is left, on any path, every browser and
\* context (with its page) it opened has been closed.
C2_SessionReleasedOnEveryExit ==
  playwright = "stopped" => browser # "open" /\ context # "open" /\ tab # "open"

\* C3: the resolution of the submit URL never raises: once started it ends with a
\* target URL, whatever window.__QUIZ_DATA__ evaluated to.
C3_ResolveNeverRaises ==
  LogHas(Event("start", "resolve")) =>
    /\ LogHas(Event("end", "resolve"))
    /\ ~LogHas(Event("raise", "resolve"))
    /\ TypeOf(submit_url) = "str"

\* C5: the timeout given to each blocking stage (navigation, oracle, submission) is
\* a timeout, and no longer than the budget that remains when the stage starts.
C5_TimeoutsWithinRemaining ==
  \A i \in 1..Len(grants) :
    /\ grants[i].timeout # NoTimeout
    /\ grants[i].timeout <= grants[i].budget

\* C8: once the submission is started, one POST has been sent whose body holds the
\* answer's fields and, for every other key of the request, the request's value;
\* for every answer parse_and_solve returned, a mapping or not.
C8_BodyIsRequestOverlaidWithAnswer ==
  LogHas(Event("start", "submit")) =>
    /\ Len(posts) = 1
    /\ TypeOf(posts[1].json) = "obj"
    /\ TypeOf(answer_payload) = "obj"
    /\ DOMAIN ValueOf(posts[1].json) = DOMAIN ValueOf(payload_json) \cup DOMAIN ValueOf(answer_payload)
    /\ \A k \in DOMAIN ValueOf(answer_payload) :
         ValueOf(posts[1].json)[k] = ValueOf(answer_payload)[k]
    /\ \A k \in DOMAIN ValueOf(payload_json) \ DOMAIN ValueOf(answer_payload) :
         ValueOf(posts[1].json)[k] = ValueOf(payload_json)[k]

\* C10: once the page has loaded, fetch_quiz_page_and_extract returns normally with
\* body_text in its result, whichever extraction strategy failed (the browser and
\* the context having closed without a failure of their own).
C10_ExtractionFailureTolerated ==
  (page # NoPage /\ playwright = "stopped" /\ context = "closed" /\ browser = "closed") =>
    /\ LogHas(Event("end", "render"))
    /\ "body_text" \in DOMAIN extracted

====
